---- MODULE Spec2Model ----
(***************************************************************************)
(* zoekt-mcp: the two tools (search, list_repos), the remote call they     *)
(* share (post), the payload decoder (decode_b64) and the four renderers   *)
(* (format_content, format_files, format_count, format_repos).             *)
(*                                                                         *)
(* Representation.                                                         *)
(*  - A u32 is a pair <<hi, lo>> of 16-bit halves (value hi * 2^16 + lo),   *)
(*    so that the full 32-bit width is kept.                               *)
(*  - A payload (a Rust &str whose bytes the code looks at) is a sequence  *)
(*    of bytes 0..255.                                                     *)
(*  - A rendered String is a sequence of tokens: S(s) a piece of text that *)
(*    the code copies as a whole (a literal of a format string, a file     *)
(*    name, a status), B(bytes) a byte payload, N(u) a u32 in decimal,     *)
(*    I(n) a u64/usize in decimal, NL the line feed of writeln!.           *)
(***************************************************************************)
EXTENDS Integers, Sequences, FiniteSets, TLC

\* ---------------------------------------------------------------- helpers

Range(f) == {f[i] : i \in DOMAIN f}

SeqsUpTo(S, n) == UNION {[1..k -> S] : k \in 0..n}

RECURSIVE Concat(_)
Concat(ss) == IF ss = <<>> THEN <<>> ELSE Head(ss) \o Concat(Tail(ss))

RECURSIVE SumSeq(_)
SumSeq(ns) == IF ns = <<>> THEN 0 ELSE Head(ns) + SumSeq(Tail(ns))

None == [some |-> FALSE, v |-> <<>>]
Some(x) == [some |-> TRUE, v |-> x]

\* ------------------------------------------------------------------- u32

Half == 2^16

U32(n) == <<n \div Half, n % Half>>

U32_MAX == <<Half - 1, Half - 1>>

IsU32(a) == a[1] \in 0..(Half - 1) /\ a[2] \in 0..(Half - 1)

\* a <= b
U32Le(a, b) == a[1] < b[1] \/ (a[1] = b[1] /\ a[2] <= b[2])

\* The exact sum a + n and difference a - n of a u32 and a small natural, as
\* a pair whose high half is outside 0..2^16-1 when the value does not fit.
WideAdd(a, n) == <<a[1] + ((a[2] + n) \div Half), (a[2] + n) % Half>>
WideSub(a, n) == <<a[1] + ((a[2] - n) \div Half), (a[2] - n) % Half>>

\* u32 `+`: the sum overflows when it does not fit; a build without overflow
\* checks keeps the low 32 bits.
AddOverflows(a, n) == ~IsU32(WideAdd(a, n))
WrappingAdd(a, n) == LET w == WideAdd(a, n) IN <<w[1] % Half, w[2]>>

\* u32::saturating_sub
SaturatingSub(a, n) == LET w == WideSub(a, n) IN IF w[1] < 0 THEN U32(0) ELSE w

\* ---------------------------------------------------------------- tokens

S(s) == <<"s", s>>
B(bytes) == <<"b", bytes>>
N(u) == <<"u32", u[1], u[2]>>
I(n) == <<"int", n>>
NL == <<"nl">>

\* writeln!(out, ...): the formatted pieces and a line feed
Line(tokens) == tokens \o <<NL>>

\* ----------------------------------------------------------------- bytes

\* str::lines(): split after each '\n'; a piece loses its '\n' and then one
\* '\r' before it; a last piece without '\n' is kept as it is; no piece for
\* the empty rest.
FirstLf(s) == IF \E i \in 1..Len(s) : s[i] = 10
              THEN CHOOSE i \in 1..Len(s) : s[i] = 10 /\ \A j \in 1..(i - 1) : s[j] # 10
              ELSE 0

StripCr(l) == IF Len(l) > 0 /\ l[Len(l)] = 13 THEN SubSeq(l, 1, Len(l) - 1) ELSE l

RECURSIVE Lines(_)
Lines(s) ==
    IF s = <<>> THEN <<>>
    ELSE LET p == FirstLf(s) IN
         IF p = 0 THEN <<s>>
         ELSE <<StripCr(SubSeq(s, 1, p - 1))>> \o Lines(SubSeq(s, p + 1, Len(s)))

\* The byte length of the White_Space character s ends with, 0 when none.
TrailingWhite(s) ==
    LET n == Len(s) IN
    IF n >= 1 /\ s[n] \in {9, 10, 11, 12, 13, 32} THEN 1
    ELSE IF n >= 2 /\ s[n - 1] = 194 /\ s[n] \in {133, 160} THEN 2
    ELSE IF n >= 3 /\ s[n - 2] = 225 /\ s[n - 1] = 154 /\ s[n] = 128 THEN 3
    ELSE IF n >= 3 /\ s[n - 2] = 226 /\ s[n - 1] = 128
            /\ s[n] \in (128..138) \cup {168, 169, 175} THEN 3
    ELSE IF n >= 3 /\ s[n - 2] = 226 /\ s[n - 1] = 129 /\ s[n] = 159 THEN 3
    ELSE IF n >= 3 /\ s[n - 2] = 227 /\ s[n - 1] = 128 /\ s[n] = 128 THEN 3
    ELSE 0

\* str::trim_end()
RECURSIVE TrimEnd(_)
TrimEnd(s) == LET w == TrailingWhite(s) IN
              IF w = 0 THEN s ELSE TrimEnd(SubSeq(s, 1, Len(s) - w))

\* String::from_utf8(bytes).is_ok(): well-formed UTF-8 (no overlong forms, no
\* surrogates, nothing above U+10FFFF).
Cont(b) == b \in 128..191

RECURSIVE IsUtf8(_)
IsUtf8(b) ==
    IF b = <<>> THEN TRUE
    ELSE LET n == Len(b)
             c == b[1]
             rest(k) == SubSeq(b, k + 1, n)
         IN
         IF c < 128 THEN IsUtf8(rest(1))
         ELSE IF c \in 194..223 THEN n >= 2 /\ Cont(b[2]) /\ IsUtf8(rest(2))
         ELSE IF c = 224 THEN n >= 3 /\ b[2] \in 160..191 /\ Cont(b[3]) /\ IsUtf8(rest(3))
         ELSE IF c \in (225..236) \cup {238, 239}
              THEN n >= 3 /\ Cont(b[2]) /\ Cont(b[3]) /\ IsUtf8(rest(3))
         ELSE IF c = 237 THEN n >= 3 /\ b[2] \in 128..159 /\ Cont(b[3]) /\ IsUtf8(rest(3))
         ELSE IF c = 240
              THEN n >= 4 /\ b[2] \in 144..191 /\ Cont(b[3]) /\ Cont(b[4]) /\ IsUtf8(rest(4))
         ELSE IF c \in 241..243
              THEN n >= 4 /\ Cont(b[2]) /\ Cont(b[3]) /\ Cont(b[4]) /\ IsUtf8(rest(4))
         ELSE IF c = 244
              THEN n >= 4 /\ b[2] \in 128..143 /\ Cont(b[3]) /\ Cont(b[4]) /\ IsUtf8(rest(4))
         ELSE FALSE

\* ---------------------------------------------------------------- base64

\* The standard alphabet: the 6-bit value of a symbol, -1 for any other byte
\* ('=' included).
B64Val(c) ==
    IF c \in 65..90 THEN c - 65
    ELSE IF c \in 97..122 THEN c - 71
    ELSE IF c \in 48..57 THEN c + 4
    ELSE IF c = 43 THEN 62
    ELSE IF c = 47 THEN 63
    ELSE -1

\* The number of '=' the input ends with.
PadCount(s) ==
    LET n == Len(s) IN
    IF n >= 1 /\ s[n] = 61
    THEN (IF n >= 2 /\ s[n - 1] = 61
          THEN (IF n >= 3 /\ s[n - 2] = 61 THEN 3 ELSE 2)
          ELSE 1)
    ELSE 0

\* The bytes the symbols d (no padding) spell: byte j takes its 8 bits from
\* two neighbouring symbols of its group of four.
B64Bytes(d) ==
    LET v(i) == B64Val(d[i])
        outLen == (Len(d) \div 4) * 3
                  + (IF Len(d) % 4 = 2 THEN 1 ELSE IF Len(d) % 4 = 3 THEN 2 ELSE 0)
    IN [j \in 1..outLen |->
           LET g == 4 * ((j - 1) \div 3)
               r == (j - 1) % 3
           IN IF r = 0 THEN v(g + 1) * 4 + (v(g + 2) \div 16)
              ELSE IF r = 1 THEN (v(g + 2) % 16) * 16 + (v(g + 3) \div 4)
              ELSE (v(g + 3) % 4) * 64 + v(g + 4)]

\* Engine::decode of the STANDARD engine: the standard alphabet, padding
\* required and canonical, no non-zero trailing bits.
B64Decode(s) ==
    LET p == PadCount(s)
        d == SubSeq(s, 1, Len(s) - p)
        m == Len(d) % 4
        last == B64Val(d[Len(d)])
        ok == /\ Len(s) % 4 = 0
              /\ p <= 2
              /\ \A i \in 1..Len(d) : B64Val(d[i]) >= 0
              /\ m # 1
              /\ (m = 0 => p = 0)
              /\ (m = 2 => p = 2 /\ last % 16 = 0)
              /\ (m = 3 => p = 1 /\ last % 4 = 0)
    IN IF ok THEN [ok |-> TRUE, bytes |-> B64Bytes(d)]
       ELSE [ok |-> FALSE, bytes |-> <<>>]

\* A decoder that accepts any bytes the symbols spell, valid UTF-8 or not.
decode_b64_lossy(s) ==
    IF s = <<>> THEN <<>>
    ELSE LET r == B64Decode(s) IN IF r.ok THEN r.bytes ELSE s

decode_b64(s) ==
    IF s = <<>> THEN <<>>
    ELSE LET r == B64Decode(s) IN
         IF r.ok /\ IsUtf8(r.bytes) THEN r.bytes ELSE s

\* ------------------------------------------------------------ data model

\* Location: only line_number is read by the renderers.
Location(n) == [line_number |-> n]

\* Range
Rg(s, e) == [start |-> Location(s), end |-> Location(e)]

SymbolInfo(sym, kind, parent) == [sym |-> sym, kind |-> kind, parent |-> parent]

ChunkMatch(content, start, ranges, symbol_info) ==
    [content |-> content, content_start |-> Location(start), ranges |-> ranges,
     symbol_info |-> symbol_info]

LineMatch(line, n, before, after) ==
    [line |-> line, line_number |-> n, before |-> before, after |-> after]

FileMatch(name, language, chunk_matches, line_matches) ==
    [file_name |-> name, language |-> language, chunk_matches |-> chunk_matches,
     line_matches |-> line_matches]

SearchResult(match_count, file_count, files) ==
    [match_count |-> match_count, file_count |-> file_count, files |-> files]

BranchInfo(name, version) == [name |-> name, version |-> version]

RepoEntry(name, branches, has_symbols, documents, content_bytes, index_bytes) ==
    [repository |-> [name |-> name, branches |-> branches, has_symbols |-> has_symbols],
     stats |-> [documents |-> documents, content_bytes |-> content_bytes,
                index_bytes |-> index_bytes]]

\* ListResponse: list.repos
ListResponse(repos) == [list |-> [repos |-> repos]]

\* What a renderer gives back: the String, or nothing when it panicked.
Text(s) == [tag |-> "text", s |-> s]
Panic == [tag |-> "panic", s |-> <<>>]

\* files.as_deref().unwrap_or_default()
UnwrapOrEmpty(opt) == IF opt.some THEN opt.v ELSE <<>>

\* --------------------------------------------------------- format_content

SymbolLine(sym) ==
    Line(<<S("  symbol: "), S(sym.sym)>>
         \o (IF sym.kind = "" THEN <<>> ELSE <<S(" ["), S(sym.kind), S("]")>>)
         \o (IF sym.parent = "" THEN <<>> ELSE <<S(" in "), S(sym.parent)>>))

\* syms.iter().flatten(): the slots that hold a symbol
SymbolLines(chunk) ==
    IF chunk.symbol_info.some
    THEN Concat([k \in 1..Len(chunk.symbol_info.v) |->
                    IF chunk.symbol_info.v[k].some
                    THEN SymbolLine(chunk.symbol_info.v[k].v) ELSE <<>>])
    ELSE <<>>


IsMatch(chunk, line_num) ==
    \E k \in 1..Len(chunk.ranges) :
        /\ U32Le(chunk.ranges[k].start.line_number, line_num)
        /\ U32Le(line_num, chunk.ranges[k].end.line_number)


ChunkLineNum(chunk, i) == WrappingAdd(chunk.content_start.line_number, i)

\* One chunk: its symbols, then every line of the decoded content.
ChunkOut(chunk) ==
    LET lines == Lines(decode_b64(chunk.content)) IN
    SymbolLines(chunk)
    \o Concat([k \in 1..Len(lines) |->
                  LET line_num == ChunkLineNum(chunk, k - 1) IN
                  Line(<<S(IF IsMatch(chunk, line_num) THEN ">" ELSE " "),
                         N(line_num), S(":"), B(lines[k])>>)])

\* `start + i as u32` overflows for some line of the chunk
ChunkOverflows(chunk) ==
    LET lines == Lines(decode_b64(chunk.content)) IN
    \E k \in 1..Len(lines) : AddOverflows(chunk.content_start.line_number, k - 1)

\* m.line_number.saturating_sub(before.lines().count() as u32 - i as u32)
BeforeNumWrapping(m, count, i) ==
    LET w == WideSub(m.line_number, count - i) IN <<w[1] % Half, w[2]>>

BeforeNum(m, count, i) == SaturatingSub(m.line_number, count - i)

\* m.line_number + 1 + i as u32
AfterNum(m, i) == WrappingAdd(m.line_number, 1 + i)

BeforeLines(m) ==
    IF m.before.some
    THEN LET before == decode_b64(m.before.v) IN
         IF before # <<>>
         THEN LET ls == Lines(before) IN
              Concat([k \in 1..Len(ls) |->
                         Line(<<S(" "), N(BeforeNum(m, Len(ls), k - 1)), S(":"), B(ls[k])>>)])
         ELSE <<>>
    ELSE <<>>

AfterLines(m) ==
    IF m.after.some
    THEN LET after == decode_b64(m.after.v) IN
         IF after # <<>>
         THEN LET ls == Lines(after) IN
              Concat([k \in 1..Len(ls) |->
                         Line(<<S(" "), N(AfterNum(m, k - 1)), S(":"), B(ls[k])>>)])
         ELSE <<>>
    ELSE <<>>

\* One line match: the context before, the match line, the context after.
LineMatchOut(m) ==
    BeforeLines(m)
    \o Line(<<S(">"), N(m.line_number), S(": "), B(TrimEnd(decode_b64(m.line)))>>)
    \o AfterLines(m)

\* `m.line_number + 1 + i as u32` overflows for some line of the context after
LineMatchOverflows(m) ==
    /\ m.after.some
    /\ LET ls == Lines(decode_b64(m.after.v)) IN
       \E k \in 1..Len(ls) : AddOverflows(m.line_number, 1 + (k - 1))

FileHeader(file) ==
    <<NL>> \o Line(<<S("--- "), S(file.file_name)>>
                   \o (IF file.language = "" THEN <<>>
                       ELSE <<S(" ("), S(file.language), S(")")>>)
                   \o <<S(" ---")>>)

\* The body of a file: chunk-form first, else line-form, else nothing.
FileBody(file) ==
    IF file.chunk_matches.some
    THEN Concat([k \in 1..Len(file.chunk_matches.v) |-> ChunkOut(file.chunk_matches.v[k])])
    ELSE IF file.line_matches.some
    THEN Concat([k \in 1..Len(file.line_matches.v) |-> LineMatchOut(file.line_matches.v[k])])
    ELSE <<>>

FileOverflows(file) ==
    IF file.chunk_matches.some
    THEN \E k \in 1..Len(file.chunk_matches.v) : ChunkOverflows(file.chunk_matches.v[k])
    ELSE IF file.line_matches.some
    THEN \E k \in 1..Len(file.line_matches.v) : LineMatchOverflows(file.line_matches.v[k])
    ELSE FALSE

\* checks: the build has overflow checks on (a u32 `+` that overflows panics);
\* without them the sum wraps.
format_content(result, checks) ==
    LET files == UnwrapOrEmpty(result.files) IN
    IF checks /\ \E k \in 1..Len(files) : FileOverflows(files[k])
    THEN Panic
    ELSE Text(Line(<<I(result.match_count), S(" matches in "), I(result.file_count),
                     S(" files")>>)
              \o Concat([k \in 1..Len(files) |-> FileHeader(files[k]) \o FileBody(files[k])]))

\* ----------------------------------------------------------- format_files

format_files(result) ==
    LET files == UnwrapOrEmpty(result.files) IN
    Text(Line(<<S("Found "), I(result.file_count), S(" files")>>)
         \o Concat([k \in 1..Len(files) |-> Line(<<S(files[k].file_name)>>)]))

\* ----------------------------------------------------------- format_count

\* A count that takes the number of chunks for the number of ranges.
FileCountChunks(file) ==
    IF file.chunk_matches.some THEN Len(file.chunk_matches.v)
    ELSE IF file.line_matches.some THEN Len(file.line_matches.v)
    ELSE 0

\* chunk_matches.map(sum of ranges.len()).or_else(line_matches.map(len)).unwrap_or(0)
FileCount(file) ==
    IF file.chunk_matches.some
    THEN SumSeq([k \in 1..Len(file.chunk_matches.v) |-> Len(file.chunk_matches.v[k].ranges)])
    ELSE IF file.line_matches.some THEN Len(file.line_matches.v)
    ELSE 0

format_count(result) ==
    LET files == UnwrapOrEmpty(result.files) IN
    Text(Line(<<I(result.match_count), S(" matches in "), I(result.file_count),
                S(" files")>>)
         \o Concat([k \in 1..Len(files) |->
                       Line(<<S(files[k].file_name), S(":"), I(FileCount(files[k]))>>)]))

\* ----------------------------------------------------------- format_repos

MiB == 1048576

\* format!("{:.1}", bytes as f64 / 1_048_576.0) as a number of tenths: the
\* quotient is exact in f64 (a division by a power of two), and {:.1} rounds
\* the exact value to the nearest tenth, a tie to the even one.
Tenths(bytes) ==
    LET q == (bytes * 10) \div MiB
        r == (bytes * 10) % MiB
    IN IF 2 * r > MiB \/ (2 * r = MiB /\ q % 2 = 1) THEN q + 1 ELSE q

F1(bytes) == <<"f1", Tenths(bytes) \div 10, Tenths(bytes) % 10>>

\* str::is_char_boundary(i) for 0 < i < len: byte i (zero-based) does not
\* continue a character
IsCharBoundary(v, i) == i = 0 \/ i = Len(v) \/ (i < Len(v) /\ ~Cont(v[i + 1]))


\* if version.len() > 10 { &version[..10] } else { &version }: len() counts
\* bytes and the slice is by bytes; a slice that ends inside a character
\* panics.
ShortVer(version) ==
    IF Len(version) > 10
    THEN (IF IsCharBoundary(version, 10) THEN Text(SubSeq(version, 1, 10)) ELSE Panic)
    ELSE Text(version)

BranchLine(branch) ==
    Line(<<S("    branch: "), S(branch.name), S(" ("), B(ShortVer(branch.version).s), S(")")>>)

\* The em dash of the format string is written U+2014 here.
RepoOut(repo) ==
    Line(<<S("  "), S(repo.repository.name), S(" U+2014 "), I(repo.stats.documents),
           S(" files, "), F1(repo.stats.content_bytes), S(" MB content, "),
           F1(repo.stats.index_bytes), S(" MB index")>>
         \o (IF repo.repository.has_symbols THEN <<S(" [symbols]")>> ELSE <<>>))
    \o Concat([k \in 1..Len(repo.repository.branches) |->
                  BranchLine(repo.repository.branches[k])])

RepoPanics(repo) ==
    \E k \in 1..Len(repo.repository.branches) :
        ShortVer(repo.repository.branches[k].version).tag = "panic"

format_repos(resp) ==
    LET repos == UnwrapOrEmpty(resp.list.repos) IN
    IF \E k \in 1..Len(repos) : RepoPanics(repos[k])
    THEN Panic
    ELSE Text(Line(<<I(Len(repos)), S(" repositories indexed")>>)
              \o Concat([k \in 1..Len(repos) |-> RepoOut(repos[k])]))

\* ------------------------------------------------------- tools: requests

SearchInput(query, limit, context_lines, output_mode) ==
    [query |-> query, limit |-> limit, context_lines |-> context_lines,
     output_mode |-> output_mode]

ListReposInput(query) == [query |-> query]

\* A default of "content" for an omitted output_mode.
ModeDefaultContent(input) ==
    IF input.output_mode.some THEN input.output_mode.v ELSE "content"

\* input.output_mode.as_deref().unwrap_or("files_with_matches")
Mode(input) ==
    IF input.output_mode.some THEN input.output_mode.v ELSE "files_with_matches"

\* input.context_lines.unwrap_or(if mode == "content" { 2 } else { 0 })
Context(input) ==
    IF input.context_lines.some THEN input.context_lines.v
    ELSE IF Mode(input) = "content" THEN 2 ELSE 0

\* input.limit.unwrap_or(25)
Limit(input) == IF input.limit.some THEN input.limit.v ELSE 25

SearchRequest(input) ==
    [Q |-> input.query,
     Opts |-> Some([MaxDocDisplayCount |-> Limit(input),
                    NumContextLines |-> Context(input),
                    ChunkMatches |-> (Mode(input) = "content"),
                    Whole |-> FALSE])]

\* input.query.unwrap_or_default()
ListRequest(input) == [Q |-> IF input.query.some THEN input.query.v ELSE ""]

Endpoint(tool) == IF tool = "search" THEN "/api/search" ELSE "/api/list"

\* format!("{}{}", self.base_url, endpoint)
Url(base, endpoint) == <<S(base), S(endpoint)>>

\* ------------------------------------------------------ tools: the remote

\* What the transport gives back for one request: no connection, or a
\* response with a status and a body. A body is unreadable (the stream breaks),
\* raw (text that is no JSON of the expected shape) or json (text that
\* deserializes, as the response type `of`, to `value`).
BodyNone == [kind |-> "none", text |-> "", cause |-> "", of |-> "", value |-> <<>>]
BodyUnreadable(cause) ==
    [kind |-> "unreadable", text |-> "", cause |-> cause, of |-> "", value |-> <<>>]
BodyRaw(text, cause) ==
    [kind |-> "raw", text |-> text, cause |-> cause, of |-> "", value |-> <<>>]
BodyJson(text, of, value) ==
    [kind |-> "json", text |-> text, cause |-> "missing field", of |-> of, value |-> value]

NoReply == [kind |-> "none", cause |-> "", code |-> 0, status |-> "", body |-> BodyNone]
Unreachable(cause) ==
    [kind |-> "error", cause |-> cause, code |-> 0, status |-> "", body |-> BodyNone]
Http(code, status, body) ==
    [kind |-> "http", cause |-> "", code |-> code, status |-> status, body |-> body]

\* status.is_success()
IsSuccess(reply) == reply.code >= 200 /\ reply.code <= 299

\* resp.text().await.unwrap_or_default()
BodyText(body) == IF body.kind = "unreadable" THEN "" ELSE body.text

\* resp.json::<Resp>().await
Parses(body, of) == body.kind = "json" /\ body.of = of

Ok(v) == [tag |-> "ok", v |-> v, e |-> <<>>]
Err(e) == [tag |-> "err", v |-> <<>>, e |-> e]
NotReturned == [tag |-> "none", v |-> <<>>, e |-> <<>>]

\* format!("Cannot reach Zoekt at {url}: {e}")
ErrCannotReach(url, cause) == <<S("Cannot reach Zoekt at ")>> \o url \o <<S(": "), S(cause)>>

\* A status message that leaves the body text out.
ErrStatusNoBody(status, text) == <<S("Zoekt returned "), S(status), S(": ")>>

\* format!("Zoekt returned {status}: {text}")
ErrStatus(status, text) == <<S("Zoekt returned "), S(status), S(": "), S(text)>>

\* format!("Failed to parse Zoekt response: {e}")
ErrParse(cause) == <<S("Failed to parse Zoekt response: "), S(cause)>>

\* post, as one function of what the transport gives back
post(base, tool, reply) ==
    IF reply.kind = "error" THEN Err(ErrCannotReach(Url(base, Endpoint(tool)), reply.cause))
    ELSE IF ~IsSuccess(reply) THEN Err(ErrStatus(reply.status, BodyText(reply.body)))
    ELSE IF Parses(reply.body, tool) THEN Ok(reply.body.value)
    ELSE Err(ErrParse(reply.body.cause))

\* ---------------------------------------------------- tools: the outcome

\* match mode { "content" => format_content, "count" => format_count, _ => format_files }
Renderer(mode) ==
    IF mode = "content" THEN "format_content"
    ELSE IF mode = "count" THEN "format_count"
    ELSE "format_files"

Render(renderer, parsed, checks) ==
    IF renderer = "format_content" THEN format_content(parsed.result, checks)
    ELSE IF renderer = "format_count" THEN format_count(parsed.result)
    ELSE IF renderer = "format_files" THEN format_files(parsed.result)
    ELSE format_repos(parsed)

\* An error arm that renders an empty result instead of returning the error.
OnErrRendered(e) == format_files(SearchResult(0, 0, None))

\* Err(e) => e
OnErr(e) == Text(e)

\* search and list_repos, as one function of the input and of what the
\* transport gives back: [renderer, post, result]
RunTool(base, checks, tool, input, reply) ==
    LET r == post(base, tool, reply)
        renderer == IF tool = "search" THEN Renderer(Mode(input)) ELSE "format_repos"
    IN IF r.tag = "ok"
       THEN [renderer |-> renderer, post |-> r, result |-> Render(renderer, r.v, checks)]
       ELSE [renderer |-> "none", post |-> r, result |-> OnErr(r.e)]

\* ================================================================ state

VARIABLES
    base_url,         \* ZoektMcp.base_url
    client,           \* ZoektMcp.client
    overflow_checks,  \* the build: TRUE when a u32 overflow panics
    pc,               \* per invocation: where its future stands
    call,             \* per invocation: the tool and its input
    sent,             \* per invocation: the requests it has issued
    conn,             \* per invocation: what the transport holds for its request
    resp,             \* per invocation: `resp`, the response post owns
    post_ret,         \* per invocation: what post returned
    rendered,         \* per invocation: the renderer that ran, "none" if none
    result,           \* per invocation: what the tool returned
    arg,              \* the input of a renderer or of the decoder run on its own
    ret               \* its output

vars == <<base_url, client, overflow_checks, pc, call, sent, conn, resp, post_ret,
          rendered, result, arg, ret>>

config == <<base_url, client, overflow_checks>>
tools == <<pc, call, sent, conn, resp, post_ret, rendered, result>>
pure == <<arg, ret>>

\* Concurrent invocations.
NumInv == 2
Inv == 1..NumInv

NoCall == [tool |-> "none", input |-> <<>>]
NoResult == [tag |-> "none", s |-> <<>>]

\* ZoektMcp::new with ZOEKT_URL unset, in either build.
Config ==
    /\ base_url = "http://localhost:6070"
    /\ client = "reqwest::Client"
    /\ overflow_checks \in BOOLEAN

Idle ==
    /\ pc = [i \in Inv |-> "idle"]
    /\ call = [i \in Inv |-> NoCall]
    /\ sent = [i \in Inv |-> <<>>]
    /\ conn = [i \in Inv |-> NoReply]
    /\ resp = [i \in Inv |-> NoReply]
    /\ post_ret = [i \in Inv |-> NotReturned]
    /\ rendered = [i \in Inv |-> "none"]
    /\ result = [i \in Inv |-> NoResult]

Init == Config /\ Idle /\ arg = <<>> /\ ret = NoResult

\* ------------------------------------------------------- bounded inputs

\* "a\nb\nc" in base-64 (YQpiCmM=), "p\nq\n" and "x" plain, "hi " plain
B64_abc == <<89, 81, 112, 105, 67, 109, 77, 61>>
Plain_pq == <<112, 10, 113, 10>>
Plain_x == <<120>>
Plain_hi == <<104, 105, 32>>

Modes == {None, Some("files_with_matches"), Some("content"), Some("count"), Some("json")}

SearchInputs == {SearchInput("foo", None, None, m) : m \in Modes}

ListInputs == {ListReposInput(Some("repo:nexus"))}

\* A result with a chunk-form file and a line-form file.
Result1 ==
    SearchResult(3, 2, Some(<<
        FileMatch("a.rs", "Rust",
                  Some(<<ChunkMatch(B64_abc, U32(10), <<Rg(U32(11), U32(11))>>,
                                    Some(<<Some(SymbolInfo("foo", "func", "Bar"))>>))>>),
                  None),
        FileMatch("b.rs", "", None,
                  Some(<<LineMatch(Plain_hi, U32(5), Some(Plain_pq), Some(Plain_x)),
                         LineMatch(Plain_hi, U32(9), None, None)>>))>>))

List1 ==
    ListResponse(Some(<<RepoEntry("nexus", <<BranchInfo("main", B64_abc)>>, TRUE,
                                  42, 2 * MiB, MiB)>>))

Replies(tool) ==
    {Unreachable("connection refused"),
     Http(500, "500 Internal Server Error", BodyRaw("index not ready", "expected value")),
     Http(500, "500 Internal Server Error", BodyUnreadable("error decoding response body")),
     Http(200, "200 OK", BodyRaw("<html>", "expected value")),
     Http(200, "200 OK",
          IF tool = "search" THEN BodyJson("{Result}", "search", [result |-> Result1])
          ELSE BodyJson("{List}", "list_repos", List1))}

\* -------------------------------------------------------------- actions

\* The request an invocation puts on the wire.
Request(i, tool, input) ==
    [url |-> Url(base_url, Endpoint(tool)),
     body |-> IF tool = "search" THEN SearchRequest(input) ELSE ListRequest(input)]

\* search is invoked: the request is built and sent; the future waits in send().
CallSearch(i, input) ==
    /\ pc[i] = "idle"
    /\ pc' = [pc EXCEPT ![i] = "sending"]
    /\ call' = [call EXCEPT ![i] = [tool |-> "search", input |-> input]]
    /\ sent' = [sent EXCEPT ![i] = Append(@, Request(i, "search", input))]
    /\ UNCHANGED <<config, conn, resp, post_ret, rendered, result, pure>>

\* list_repos is invoked.
CallListRepos(i, input) ==
    /\ pc[i] = "idle"
    /\ pc' = [pc EXCEPT ![i] = "sending"]
    /\ call' = [call EXCEPT ![i] = [tool |-> "list_repos", input |-> input]]
    /\ sent' = [sent EXCEPT ![i] = Append(@, Request(i, "list_repos", input))]
    /\ UNCHANGED <<config, conn, resp, post_ret, rendered, result, pure>>

\* The transport has an outcome for the request of invocation i.
RemoteReplies(i, reply) ==
    /\ pc[i] = "sending"
    /\ conn[i].kind = "none"
    /\ conn' = [conn EXCEPT ![i] = reply]
    /\ UNCHANGED <<config, pc, call, sent, resp, post_ret, rendered, result, pure>>

\* One slot for the outcomes of all requests: an invocation may read another's.
SharedConn(i) ==
    IF \E j \in Inv : j # i /\ conn[j].kind # "none"
    THEN conn[CHOOSE j \in Inv : j # i /\ conn[j].kind # "none"]
    ELSE conn[i]

\* What send() resolves to for invocation i: the outcome of its own request.
OwnConn(i) == conn[i]

\* A failed post that is tried again.
RetryOnErr(i, e) ==
    /\ sent' = [sent EXCEPT ![i] = Append(@, @[1])]
    /\ conn' = [conn EXCEPT ![i] = NoReply]
    /\ pc' = [pc EXCEPT ![i] = "sending"]
    /\ UNCHANGED <<config, call, resp, post_ret, rendered, result, pure>>

\* post returns Err(e) and the tool returns e.
ReturnErr(i, e) ==
    /\ post_ret' = [post_ret EXCEPT ![i] = Err(e)]
    /\ result' = [result EXCEPT ![i] = OnErr(e)]
    /\ pc' = [pc EXCEPT ![i] = "done"]
    /\ UNCHANGED <<config, call, sent, conn, resp, rendered, pure>>

\* post returns Ok(parsed) and the tool renders it.
ReturnOk(i, parsed) ==
    LET renderer == IF call[i].tool = "search" THEN Renderer(Mode(call[i].input))
                    ELSE "format_repos"
        out == Render(renderer, parsed, overflow_checks)
    IN /\ post_ret' = [post_ret EXCEPT ![i] = Ok(parsed)]
       /\ rendered' = [rendered EXCEPT ![i] = renderer]
       /\ result' = [result EXCEPT ![i] = out]
       /\ pc' = [pc EXCEPT ![i] = IF out.tag = "panic" THEN "panicked" ELSE "done"]
       /\ UNCHANGED <<config, call, sent, conn, resp, pure>>

\* send().await resolves: an error ends post; a response is kept, and post
\* waits for its body (text() after a failure status, json() after success).
SendCompletes(i) ==
    /\ pc[i] = "sending"
    /\ conn[i].kind # "none"
    /\ LET r == OwnConn(i) IN
       IF r.kind = "error"
       THEN ReturnErr(i, ErrCannotReach(Url(base_url, Endpoint(call[i].tool)), r.cause))
       ELSE /\ resp' = [resp EXCEPT ![i] = r]
            /\ pc' = [pc EXCEPT ![i] = IF IsSuccess(r) THEN "reading_json" ELSE "reading_text"]
            /\ UNCHANGED <<config, call, sent, conn, post_ret, rendered, result, pure>>

\* resp.text().await resolves after a failure status.
TextCompletes(i) ==
    /\ pc[i] = "reading_text"
    /\ ReturnErr(i, ErrStatus(resp[i].status, BodyText(resp[i].body)))

\* resp.json().await resolves after a success status.
JsonCompletes(i) ==
    /\ pc[i] = "reading_json"
    /\ IF Parses(resp[i].body, call[i].tool)
       THEN ReturnOk(i, resp[i].body.value)
       ELSE ReturnErr(i, ErrParse(resp[i].body.cause))

Next ==
    \E i \in Inv :
        \/ \E input \in SearchInputs : CallSearch(i, input)
        \/ \E input \in ListInputs : CallListRepos(i, input)
        \/ \E reply \in Replies(call[i].tool) : RemoteReplies(i, reply)
        \/ SendCompletes(i)
        \/ TextCompletes(i)
        \/ JsonCompletes(i)

Spec == Init /\ [][Next]_vars

\* ============================================ the decoder on its own

\* Inputs of the decoder: every string of at most MaxLen bytes over
\* Y Q R = / w 6 k ! and three longer ones (YQpiCmM=, YQ==YQ==, YQpiYQ= ).
MaxLen == 4

DecodeAlphabet == {89, 81, 82, 61, 47, 119, 54, 107, 33}

DecodeInputs ==
    SeqsUpTo(DecodeAlphabet, MaxLen)
    \cup {B64_abc, <<89, 81, 61, 61, 89, 81, 61, 61>>, <<89, 81, 112, 105, 89, 81, 61>>}

InitDecode == Config /\ Idle /\ arg \in DecodeInputs /\ ret = NoResult

ApplyDecode ==
    /\ ret.tag = "none"
    /\ ret' = Text(decode_b64(arg))
    /\ UNCHANGED <<config, tools, arg>>

SpecDecode == InitDecode /\ [][ApplyDecode]_vars

\* ========================================== the renderers on their own

\* Files per result for the count renderer, files per result for the content
\* renderer, chunk or line matches per file, letters per branch version.
MaxFiles == 2
MaxContentFiles == 1
MaxMatches == 2
MaxVersion == 12

Results(files, n) ==
    {SearchResult(7, 2, None)} \cup {SearchResult(7, 2, Some(fs)) : fs \in SeqsUpTo(files, n)}

\* A chunk with k ranges.
ChunkOfRanges(k) == ChunkMatch(Plain_x, U32(1), [r \in 1..k |-> Rg(U32(1), U32(1))], None)

CountFiles ==
    {FileMatch("a.rs", "", cm, lm) :
        cm \in {None, Some(<<>>), Some(<<ChunkOfRanges(0)>>),
                Some(<<ChunkOfRanges(2), ChunkOfRanges(3)>>)},
        lm \in {None, Some(<<>>),
                Some(<<LineMatch(Plain_hi, U32(5), None, None),
                       LineMatch(Plain_hi, U32(9), None, None)>>)}}
    \cup {FileMatch("b.rs", "Rust", Some(<<ChunkOfRanges(1)>>), None)}

InitCount == Config /\ Idle /\ arg \in Results(CountFiles, MaxFiles) /\ ret = NoResult

ApplyCount ==
    /\ ret.tag = "none"
    /\ ret' = format_count(arg)
    /\ UNCHANGED <<config, tools, arg>>

SpecCount == InitCount /\ [][ApplyCount]_vars

\* Chunks: three lines from line 10 with line 11 matched; two plain lines
\* with both matched by two ranges; three lines and no range; three lines
\* from u32::MAX - 1; three lines with a range over two of them and a symbol;
\* two lines with a range that ends before it starts and one outside.
ChunkSet ==
    {ChunkMatch(B64_abc, U32(10), <<Rg(U32(11), U32(11))>>, None),
     ChunkMatch(<<120, 10, 121>>, U32(1), <<Rg(U32(1), U32(1)), Rg(U32(2), U32(2))>>, None),
     ChunkMatch(B64_abc, U32(10), <<>>, None),
     ChunkMatch(B64_abc, WideSub(U32_MAX, 1), <<Rg(U32_MAX, U32_MAX)>>, None),
     ChunkMatch(B64_abc, U32(5), <<Rg(U32(6), U32(7))>>,
                Some(<<Some(SymbolInfo("foo", "func", "Bar")), None>>)),
     ChunkMatch(<<120, 10, 121>>, U32(3), <<Rg(U32(4), U32(3)), Rg(U32(20), U32(30))>>, None)}

ChunkFiles ==
    {FileMatch("a.rs", "Rust", Some(cs), None) : cs \in SeqsUpTo(ChunkSet, MaxMatches)}

InitChunk == Config /\ Idle /\ arg \in Results(ChunkFiles, MaxContentFiles) /\ ret = NoResult

ApplyContent ==
    /\ ret.tag = "none"
    /\ ret' = format_content(arg, overflow_checks)
    /\ UNCHANGED <<config, tools, arg>>

SpecChunk == InitChunk /\ [][ApplyContent]_vars

\* Line matches: line 5 with two lines before and one after; line 2 with two
\* before; line 1 with two before and an empty after; line 0 with one
\* before; line 3 with an empty before and two after; line u32::MAX - 1 with
\* two after.
Plain_rs == <<114, 10, 115>>

LineMatchSet ==
    {LineMatch(Plain_hi, U32(5), Some(Plain_pq), Some(Plain_x)),
     LineMatch(Plain_hi, U32(2), Some(Plain_pq), None),
     LineMatch(Plain_hi, U32(1), Some(Plain_pq), Some(<<>>)),
     LineMatch(Plain_hi, U32(0), Some(Plain_x), None),
     LineMatch(Plain_hi, U32(3), Some(<<>>), Some(Plain_rs)),
     LineMatch(Plain_hi, WideSub(U32_MAX, 1), None, Some(Plain_rs))}

LineFiles ==
    {FileMatch("b.rs", "", None, Some(ls)) : ls \in SeqsUpTo(LineMatchSet, MaxMatches)}

InitLine == Config /\ Idle /\ arg \in Results(LineFiles, MaxContentFiles) /\ ret = NoResult

SpecLine == InitLine /\ [][ApplyContent]_vars

\* Branch versions: the first k letters of a..p, and the same with one
\* two-byte (e acute) or three-byte (euro sign) character put in.
Letters(from, k) == [j \in 1..k |-> 96 + from + j]

Versions ==
    {Letters(0, k) : k \in 0..MaxVersion}
    \cup {Letters(0, k) \o mb \o Letters(k, q) :
             k \in 0..(MaxVersion - 1), q \in 0..(MaxVersion - 1),
             mb \in {<<195, 169>>, <<226, 130, 172>>}}

RepoInputs ==
    {ListResponse(None), ListResponse(Some(<<>>))}
    \cup {ListResponse(Some(<<RepoEntry("nexus", <<BranchInfo("main", v)>>, TRUE,
                                        42, 2 * MiB, MiB)>>)) :
             v \in {w \in Versions : Len(w) <= MaxVersion + 2}}
    \cup {ListResponse(Some(<<RepoEntry("nexus", <<BranchInfo("main", Letters(0, 4)),
                                                   BranchInfo("dev", Letters(0, 11))>>,
                                        FALSE, 1, MiB \div 4, 3 * (MiB \div 4)),
                              RepoEntry("zoekt", <<>>, TRUE, 0, 0, 0),
                              RepoEntry("mcp", <<BranchInfo("HEAD", <<>>)>>, FALSE, 3, 1, 1)>>))}

InitRepos == Config /\ Idle /\ arg \in RepoInputs /\ ret = NoResult

ApplyRepos ==
    /\ ret.tag = "none"
    /\ ret' = format_repos(arg)
    /\ UNCHANGED <<config, tools, arg>>

SpecRepos == InitRepos /\ [][ApplyRepos]_vars

\* ================================================================ claims

Finished(i) == pc[i] \in {"done", "panicked"}

\* The outcome of the request of invocation i is one of the three failures:
\* no connection, a status that is no success, a body that does not parse.
TransportFailure(i) == conn[i].kind = "error"
StatusFailure(i) == conn[i].kind = "http" /\ ~IsSuccess(conn[i])
ParseFailure(i) ==
    conn[i].kind = "http" /\ IsSuccess(conn[i]) /\ ~Parses(conn[i].body, call[i].tool)
Failed(i) == TransportFailure(i) \/ StatusFailure(i) \/ ParseFailure(i)

\* C1: whichever failure occurs, the invocation ends with an ordinary text
\* result that is exactly the error string of the remote call; no renderer
\* has run, nothing rendered is in the result, and the invocation does not
\* end in any other way.
C1_FailureIsTextResult ==
    \A i \in Inv :
        /\ (Finished(i) /\ Failed(i)) =>
               /\ pc[i] = "done"
               /\ post_ret[i].tag = "err"
               /\ rendered[i] = "none"
               /\ result[i].tag = "text"
               /\ result[i].s = post(base_url, call[i].tool, conn[i]).e
        /\ post_ret[i].tag = "err" => (Failed(i) /\ result[i] = Text(post_ret[i].e))

C1_Witness ==
    \E i, j \in Inv :
        /\ call[i].tool = "search" /\ pc[i] = "done" /\ TransportFailure(i)
        /\ call[j].tool = "list_repos" /\ pc[j] = "done" /\ ParseFailure(j)

\* C2: the renderer of search depends on output_mode alone ("content", "count",
\* anything else or nothing: files-with-matches), and a search without
\* output_mode sends the same request and returns the same text as one with
\* "files_with_matches", the rest of the input and the response being equal.
SameButMode(a, b) ==
    a.query = b.query /\ a.limit = b.limit /\ a.context_lines = b.context_lines

C2_RendererByMode ==
    /\ \A i \in Inv :
           (call[i].tool = "search" /\ post_ret[i].tag = "ok") =>
               rendered[i] = (IF call[i].input.output_mode = Some("content") THEN "format_content"
                              ELSE IF call[i].input.output_mode = Some("count") THEN "format_count"
                              ELSE "format_files")
    /\ \A i, j \in Inv :
           (/\ call[i].tool = "search" /\ call[j].tool = "search"
            /\ SameButMode(call[i].input, call[j].input)
            /\ call[i].input.output_mode = None
            /\ call[j].input.output_mode = Some("files_with_matches")) =>
               /\ sent[i] = sent[j]
               /\ (Finished(i) /\ Finished(j) /\ conn[i] = conn[j]) => result[i] = result[j]

C2_Witness ==
    \E i, j \in Inv :
        /\ call[i].tool = "search" /\ call[j].tool = "search"
        /\ call[i].input.output_mode = None
        /\ call[j].input.output_mode = Some("files_with_matches")
        /\ pc[i] = "done" /\ pc[j] = "done"
        /\ conn[i] = conn[j] /\ post_ret[i].tag = "ok"
        /\ rendered[i] = "format_files" /\ result[i] = result[j]

\* C3: an invocation issues exactly one request: none before it is invoked,
\* one from then on, also after the request has failed; and the failure and
\* the return of its error string are one step.
C3_OneRequestNoRetry ==
    \A i \in Inv :
        /\ Len(sent[i]) = (IF pc[i] = "idle" THEN 0 ELSE 1)
        /\ (Finished(i) /\ Failed(i)) => (pc[i] = "done" /\ Len(sent[i]) = 1)
        /\ post_ret[i].tag = "err" => (pc[i] = "done" /\ result[i].s = post_ret[i].e)

C3_Witness ==
    \E i \in Inv : pc[i] = "done" /\ StatusFailure(i) /\ Len(sent[i]) = 1
                   /\ result[i].s = post_ret[i].e

\* C4 as stated: the error texts are "Zoekt returned <status>: <body text>",
\* "Cannot reach <host>: <cause>" (the host read as the base URL or as the
\* URL of the request) and "Failed to parse response: <cause>".
C4_ErrorTextsAsStated ==
    \A i \in Inv :
        pc[i] = "done" =>
            /\ StatusFailure(i) =>
                   result[i].s = <<S("Zoekt returned "), S(conn[i].status), S(": "),
                                   S(conn[i].body.text)>>
            /\ TransportFailure(i) =>
                   \E host \in {<<S(base_url)>>, Url(base_url, Endpoint(call[i].tool))} :
                       result[i].s = <<S("Cannot reach ")>> \o host
                                     \o <<S(": "), S(conn[i].cause)>>
            /\ (ParseFailure(i) /\ conn[i].body.kind = "raw") =>
                   result[i].s = <<S("Failed to parse response: "), S(conn[i].body.cause)>>

\* C4 amended: the error texts are "Zoekt returned <status>: <body text>" (the
\* body text empty when the body cannot be read), "Cannot reach Zoekt at
\* <url>: <cause>" with <url> the base URL followed by the endpoint's path, and
\* "Failed to parse Zoekt response: <cause>".
C4_ErrorTexts ==
    \A i \in Inv :
        pc[i] = "done" =>
            /\ StatusFailure(i) =>
                   result[i].s = <<S("Zoekt returned "), S(conn[i].status), S(": "),
                                   S(IF conn[i].body.kind = "unreadable" THEN ""
                                     ELSE conn[i].body.text)>>
            /\ TransportFailure(i) =>
                   result[i].s = <<S("Cannot reach Zoekt at "), S(base_url),
                                   S(IF call[i].tool = "search" THEN "/api/search"
                                     ELSE "/api/list"),
                                   S(": "), S(conn[i].cause)>>
            /\ ParseFailure(i) =>
                   result[i].s = <<S("Failed to parse Zoekt response: "),
                                   S(conn[i].body.cause)>>

C4_Witness ==
    \E i, j \in Inv :
        /\ pc[i] = "done" /\ StatusFailure(i) /\ conn[i].body.kind = "raw"
        /\ pc[j] = "done" /\ ParseFailure(j) /\ conn[j].body.kind = "raw"

\* C5: under any interleaving, the base URL and the client never change, the
\* request of an invocation is built from its own input, and what it returns
\* is what it would return running alone on its own input and the response to
\* its own request.
C5_OwnData ==
    \A i \in Inv :
        /\ pc[i] # "idle" => sent[i] = <<Request(i, call[i].tool, call[i].input)>>
        /\ Finished(i) =>
               LET alone == RunTool("http://localhost:6070", overflow_checks,
                                    call[i].tool, call[i].input, conn[i])
               IN /\ result[i] = alone.result
                  /\ rendered[i] = alone.renderer
                  /\ post_ret[i] = alone.post

C5_Independent ==
    /\ [](C5_OwnData)
    /\ [][base_url' = base_url /\ client' = client]_vars

C5_Witness ==
    \E i, j \in Inv :
        /\ i # j /\ pc[i] = "done" /\ pc[j] = "done"
        /\ call[i].tool = "search" /\ call[j].tool = "list_repos"
        /\ post_ret[i].tag = "ok" /\ post_ret[j].tag = "err"
        /\ conn[i] # conn[j]

\* ------------------------------------------------------------------- C6

\* The standard base-64 encoding of bytes t, with padding.
B64Sym(v) ==
    IF v < 26 THEN 65 + v
    ELSE IF v < 52 THEN 71 + v
    ELSE IF v < 62 THEN v - 4
    ELSE IF v = 62 THEN 43 ELSE 47

B64Encode(t) ==
    LET n == Len(t)
        byte(j) == IF j <= n THEN t[j] ELSE 0
        quad(g) ==
            LET b1 == byte(3 * g + 1)
                b2 == byte(3 * g + 2)
                b3 == byte(3 * g + 3)
                have == n - 3 * g
            IN <<B64Sym(b1 \div 4),
                 B64Sym((b1 % 4) * 16 + (b2 \div 16)),
                 IF have >= 2 THEN B64Sym((b2 % 16) * 4 + (b3 \div 64)) ELSE 61,
                 IF have >= 3 THEN B64Sym(b3 % 64) ELSE 61>>
    IN Concat([g \in 1..((n + 2) \div 3) |-> quad(g - 1)])

\* The texts an input can be the encoding of: what its symbols spell, and a
\* few short texts.
SampleTexts == SeqsUpTo({97, 10, 195, 169, 255}, 2)

Candidates(s) ==
    SampleTexts
    \cup (IF \A k \in 1..(Len(s) - PadCount(s)) : B64Val(s[k]) >= 0
          THEN {B64Bytes(SubSeq(s, 1, Len(s) - PadCount(s)))} ELSE {})

IsEncodingOfText(s) == \E t \in Candidates(s) : IsUtf8(t) /\ B64Encode(t) = s

\* C6: the decoder always returns a string: the empty string for the empty
\* input, the text t for an input that is the standard base-64 encoding of a
\* UTF-8 text t, and the input itself for every other input.
C6_DecodeThreeOutcomes ==
    ret.tag # "none" =>
        /\ ret.tag = "text"
        /\ arg = <<>> => ret.s = <<>>
        /\ \A t \in Candidates(arg) : (IsUtf8(t) /\ B64Encode(t) = arg) => ret.s = t
        /\ (arg # <<>> /\ ~IsEncodingOfText(arg)) => ret.s = arg

C6_Witness ==
    /\ ret.tag = "text"
    /\ arg = <<119, 54, 107, 61>>
    /\ ret.s = <<195, 169>>

\* ------------------------------------------------------------------- C7

FilesOf(res) == IF res.files.some THEN res.files.v ELSE <<>>

\* The count the claim gives a file: the ranges of all its chunks when the
\* chunk-form is present, else its line matches when the line-form is, else 0.
ClaimedCount(f) ==
    IF f.chunk_matches.some
    THEN Cardinality(UNION {{<<k, r>> : r \in 1..Len(f.chunk_matches.v[k].ranges)} :
                               k \in 1..Len(f.chunk_matches.v)})
    ELSE IF f.line_matches.some THEN Cardinality(DOMAIN f.line_matches.v)
    ELSE 0

\* C7: after the summary line the count renderer emits, per file and in
\* result order, one line "<file_name>:<count>" with the count of the claim.
C7_CountPerFile ==
    ret.tag # "none" =>
        /\ ret.tag = "text"
        /\ Len(ret.s) = 5 + 4 * Len(FilesOf(arg))
        /\ \A k \in 1..Len(FilesOf(arg)) :
               SubSeq(ret.s, 4 * k + 2, 4 * k + 5)
                   = <<S(FilesOf(arg)[k].file_name), S(":"),
                       I(ClaimedCount(FilesOf(arg)[k])), NL>>

C7_Witness ==
    /\ ret.tag = "text"
    /\ Len(FilesOf(arg)) = 2
    /\ FilesOf(arg)[1].chunk_matches = Some(<<ChunkOfRanges(2), ChunkOfRanges(3)>>)
    /\ FilesOf(arg)[1].line_matches.some
    /\ FilesOf(arg)[2].file_name = "b.rs"
    /\ ret.s[8] = I(5)
    /\ ret.s[12] = I(1)

\* ------------------------------------------------------------------- C8

SummaryLine(res) ==
    <<I(res.match_count), S(" matches in "), I(res.file_count), S(" files"), NL>>

\* The lines the claim gives a chunk: line k (from 0) of the decoded content
\* with the number content_start.line_number + k, marked '>' when that
\* number lies in a range of the chunk and ' ' when not.
ClaimedChunkLines(c) ==
    LET lines == Lines(decode_b64(c.content)) IN
    Concat([k \in 1..Len(lines) |->
               LET num == WideAdd(c.content_start.line_number, k - 1)
                   in_range == \E r \in Range(c.ranges) :
                                   /\ U32Le(r.start.line_number, num)
                                   /\ U32Le(num, r.end.line_number)
               IN <<S(IF in_range THEN ">" ELSE " "), N(num), S(":"), B(lines[k]), NL>>])

ClaimedChunkFile(f) ==
    FileHeader(f)
    \o Concat([k \in 1..Len(f.chunk_matches.v) |->
                  SymbolLines(f.chunk_matches.v[k]) \o ClaimedChunkLines(f.chunk_matches.v[k])])

ChunkNumbersFit(res) ==
    \A f \in Range(FilesOf(res)) : \A c \in Range(f.chunk_matches.v) :
        IsU32(WideAdd(c.content_start.line_number, Len(Lines(decode_b64(c.content)))))

\* C8: the content renderer emits, for every chunk of a chunk-form file,
\* every line of the decoded content, line k with the number start + k and
\* with '>' exactly when the number lies in a range of that chunk.
C8_ChunkLinesAsStated ==
    ret.tag # "none" =>
        /\ ret.tag = "text"
        /\ ret.s = SummaryLine(arg)
                   \o Concat([k \in 1..Len(FilesOf(arg)) |-> ClaimedChunkFile(FilesOf(arg)[k])])

\* The same, for the results whose line numbers all fit in a u32.
ChunkLinesWithinU32 ==
    (ret.tag # "none" /\ ChunkNumbersFit(arg)) => C8_ChunkLinesAsStated

\* ------------------------------------------------------------------- C9

BeforeOf(m) == IF m.before.some THEN Lines(decode_b64(m.before.v)) ELSE <<>>
AfterOf(m) == IF m.after.some THEN Lines(decode_b64(m.after.v)) ELSE <<>>

MatchLine(m) == <<S(">"), N(m.line_number), S(": "), B(TrimEnd(decode_b64(m.line))), NL>>

\* The lines the claim gives a line match: k lines before numbered n-k..n-1,
\* the match line n, m lines after numbered n+1..n+m.
ClaimedLineMatch(m) ==
    LET bs == BeforeOf(m)
        as == AfterOf(m)
    IN Concat([j \in 1..Len(bs) |->
                  <<S(" "), N(WideSub(m.line_number, Len(bs) - (j - 1))), S(":"), B(bs[j]), NL>>])
       \o MatchLine(m)
       \o Concat([j \in 1..Len(as) |->
                     <<S(" "), N(WideAdd(m.line_number, j)), S(":"), B(as[j]), NL>>])

\* The same with the numbers of the code: a number before line 0 is 0, and
\* a number after u32::MAX has lost its 33rd bit.
ClampedLineMatch(m) ==
    LET bs == BeforeOf(m)
        as == AfterOf(m)
        n == m.line_number
        back(d) == IF U32Le(U32(d), n) THEN WideSub(n, d) ELSE U32(0)
        forth(d) == LET w == WideAdd(n, d) IN IF w[1] >= Half THEN <<w[1] - Half, w[2]>> ELSE w
    IN Concat([j \in 1..Len(bs) |->
                  <<S(" "), N(back(Len(bs) - (j - 1))), S(":"), B(bs[j]), NL>>])
       \o MatchLine(m)
       \o Concat([j \in 1..Len(as) |-> <<S(" "), N(forth(j)), S(":"), B(as[j]), NL>>])

LineText(res, lm(_)) ==
    SummaryLine(res)
    \o Concat([k \in 1..Len(FilesOf(res)) |->
                  FileHeader(FilesOf(res)[k])
                  \o Concat([j \in 1..Len(FilesOf(res)[k].line_matches.v) |->
                                lm(FilesOf(res)[k].line_matches.v[j])])])

AfterNumbersFit(res) ==
    \A f \in Range(FilesOf(res)) : \A m \in Range(f.line_matches.v) :
        IsU32(WideAdd(m.line_number, Len(AfterOf(m))))

\* C9 as stated: for a line-form file every line match is emitted as its k
\* lines before numbered n-k, ..., n-1, the match line n marked '>', and its m
\* lines after numbered n+1, ..., n+m, for every n and k.
C9_LineNumbersAsStated ==
    ret.tag # "none" => (ret.tag = "text" /\ ret.s = LineText(arg, ClaimedLineMatch))

\* C9 amended: line j (from 0) of the k lines before is numbered n-k+j when
\* that is at least 0 and 0 otherwise; the match line is numbered n and marked
\* '>'; line i (from 0) of the lines after is numbered n+1+i in 32-bit
\* arithmetic: while n+1+i <= u32::MAX that is n+1+i, and beyond it the
\* renderer panics in a build with overflow checks and emits n+1+i-2^32 in a
\* build without.
C9_LineNumbers ==
    ret.tag # "none" =>
        IF overflow_checks /\ ~AfterNumbersFit(arg)
        THEN ret.tag = "panic"
        ELSE ret.tag = "text" /\ ret.s = LineText(arg, ClampedLineMatch)

C9_Witness ==
    /\ ret.tag = "text"
    /\ Len(FilesOf(arg)) = 1
    /\ FilesOf(arg)[1].line_matches.v
           = <<LineMatch(Plain_hi, U32(1), Some(Plain_pq), Some(<<>>)),
               LineMatch(Plain_hi, U32(5), Some(Plain_pq), Some(Plain_x))>>
    /\ SubSeq(ret.s, 11, 25)
           = <<S(" "), N(U32(0)), S(":"), B(<<112>>), NL,
               S(" "), N(U32(0)), S(":"), B(<<113>>), NL,
               S(">"), N(U32(1)), S(": "), B(<<104, 105>>), NL>>

\* ------------------------------------------------------------------ C10

\* The first n characters of a UTF-8 string, the whole of it when it has no
\* more than n.
CharStarts(v) == {j \in 1..Len(v) : ~Cont(v[j])}

FirstChars(v, n) ==
    IF Cardinality(CharStarts(v)) > n
    THEN LET next == CHOOSE j \in CharStarts(v) :
                         Cardinality({x \in CharStarts(v) : x < j}) = n
         IN SubSeq(v, 1, next - 1)
    ELSE v

ClaimedRepo(repo) ==
    RepoOut([repo EXCEPT !.repository.branches = <<>>])
    \o Concat([k \in 1..Len(repo.repository.branches) |->
                  <<S("    branch: "), S(repo.repository.branches[k].name), S(" ("),
                    B(FirstChars(repo.repository.branches[k].version, 10)), S(")"), NL>>])

ReposOf(lr) == IF lr.list.repos.some THEN lr.list.repos.v ELSE <<>>

\* C10: the listing renderer produces a result for every input, and for every
\* branch of every repository the short version is the first 10 characters
\* of the version, the whole version when it has 10 characters or fewer.
C10_ShortVersionAsStated ==
    ret.tag # "none" =>
        /\ ret.tag = "text"
        /\ ret.s = <<I(Len(ReposOf(arg))), S(" repositories indexed"), NL>>
                   \o Concat([k \in 1..Len(ReposOf(arg)) |-> ClaimedRepo(ReposOf(arg)[k])])

\* The same, for the listings whose versions are all ASCII.
ShortVersionOfAscii ==
    (\A repo \in Range(ReposOf(arg)) : \A b \in Range(repo.repository.branches) :
         \A j \in 1..Len(b.version) : b.version[j] < 128)
    => C10_ShortVersionAsStated

====
